---- MODULE Spec2Model ----
(***************************************************************************)
(* Model of the Encryptable derive macro (src/src/crypt.rs) and of the     *)
(* encrypt/decrypt operations it generates, run against the hex service    *)
(* and the digest function of src/tests/macros.rs.                         *)
(*                                                                         *)
(* Strings are sequences of bytes (0..255).  Identifiers and type path     *)
(* segments are sequences of one-character strings.                        *)
(***************************************************************************)
EXTENDS Integers, Sequences, FiniteSets

VARIABLES ast, pc, encrypt_fields, decrypt_fields, payload, encrypted, decrypted, calls

vars == <<ast, pc, encrypt_fields, decrypt_fields, payload, encrypted, decrypted, calls>>

(* ------------------------------ bounds --------------------------------- *)

\* longest string held by a field of a constructed record
MaxLen == 2
\* longest Vec<String> held by a field of a constructed record
MaxVec == 2
\* most fields a record declaration handed to the macro has
MaxFields == 2

\* the characters of constructed strings: '1', 'a' and 'g'
Alphabet == {49, 97, 103}

(* --------------------------- string helpers ---------------------------- *)

\* str::ends_with
EndsWith(s, suffix) ==
  /\ Len(s) >= Len(suffix)
  /\ SubSeq(s, Len(s) - Len(suffix) + 1, Len(s)) = suffix

\* str::replace: every non-overlapping match, left to right
RECURSIVE Replace(_, _, _)
Replace(s, from, to) ==
  IF Len(s) < Len(from) \/ Len(from) = 0 THEN s
  ELSE IF SubSeq(s, 1, Len(from)) = from
       THEN to \o Replace(SubSeq(s, Len(from) + 1, Len(s)), from, to)
       ELSE <<Head(s)>> \o Replace(Tail(s), from, to)

\* the literals of crypt.rs:132 and crypt.rs:134
LitDigest == <<"d", "i", "g", "e", "s", "t">>
LitUnderscoreDigest == <<"_">> \o LitDigest

(* ------------------------- values of a record -------------------------- *)

Str(s) == [tag |-> "Str", s |-> s, items |-> <<>>]
None == [tag |-> "None", s |-> <<>>, items |-> <<>>]
Some(s) == [tag |-> "Some", s |-> s, items |-> <<>>]
Vec(items) == [tag |-> "Vec", s |-> <<>>, items |-> items]

SeqsUpTo(S, n) == UNION {[1..k -> S] : k \in 0..n}

Strings == SeqsUpTo(Alphabet, MaxLen)

(* ------------------------- the declarations ---------------------------- *)

TyString == [path |-> TRUE, segments |-> <<"String">>]
TyOption == [path |-> TRUE, segments |-> <<"Option">>]
TyVec == [path |-> TRUE, segments |-> <<"Vec">>]
TyStdOption == [path |-> TRUE, segments |-> <<"std", "option", "Option">>]
TyStdVec == [path |-> TRUE, segments |-> <<"std", "vec", "Vec">>]
\* &'static str: a Type::Reference, not a Type::Path
TyRefStr == [path |-> FALSE, segments |-> <<>>]

\* what the compiler takes the declared type to be: the last path segment
Actual(ty) ==
  IF ~ty.path THEN "RefStr"
  ELSE LET last == ty.segments[Len(ty.segments)]
       IN  IF last = "Option" THEN "Option"
           ELSE IF last = "Vec" THEN "Vec"
           ELSE "String"

\* the values a field of the declared type can hold
Values(ty) ==
  IF Actual(ty) = "String" THEN {Str(s) : s \in Strings}
  ELSE IF Actual(ty) = "Option" THEN {None} \cup {Some(s) : s \in Strings}
  ELSE IF Actual(ty) = "Vec" THEN {Vec(items) : items \in SeqsUpTo(Strings, MaxVec)}
  ELSE {}

\* the field declarations records are built from, in a fixed declaration order
FieldPool ==
  << [name |-> <<"n">>, ty |-> TyString],
     [name |-> <<"n">> \o LitUnderscoreDigest, ty |-> TyString],
     [name |-> LitDigest, ty |-> TyString],
     [name |-> <<"x">> \o LitUnderscoreDigest, ty |-> TyString],
     [name |-> <<"o">>, ty |-> TyOption],
     [name |-> <<"v">>, ty |-> TyVec],
     [name |-> <<"q", "o">>, ty |-> TyStdOption],
     [name |-> <<"q", "v">>, ty |-> TyStdVec],
     [name |-> <<"r">>, ty |-> TyRefStr] >>

Flags == [encrypt : BOOLEAN, decrypt : BOOLEAN]

\* strictly increasing index sequences: the fields picked from the pool
Picks ==
  {p \in SeqsUpTo(1..Len(FieldPool), MaxFields) :
     /\ Len(p) >= 1
     /\ \A i \in 1..(Len(p) - 1) : p[i] < p[i + 1]}

\* a field as written: its identifier, its type and its #[encryptable(..)] flags
Declared(p, fl) ==
  [i \in 1..Len(p) |->
     [name |-> FieldPool[p[i]].name, ty |-> FieldPool[p[i]].ty,
      encrypt |-> fl[i].encrypt, decrypt |-> fl[i].decrypt]]

Declarations ==
  UNION {{[fields |-> Declared(p, fl), digest |-> d] :
            fl \in [1..Len(p) -> Flags], d \in BOOLEAN} : p \in Picks}

\* the records of tests/macros.rs: { name, name_digest }, { name: Option }
\* and { sessions: Vec }, here n, n_digest, o and v
TestPicks == {<<1, 2>>, <<5>>, <<6>>}

\* the test records under every combination of flags, with and without digest
TestDeclarations ==
  UNION {{[fields |-> Declared(p, fl), digest |-> d] :
            fl \in [1..Len(p) -> Flags], d \in BOOLEAN} : p \in TestPicks}

(* --------------------- the service and the digest ---------------------- *)

\* hex::ToHex: a nibble as a lower-case hex digit
HexDigit(n) == IF n < 10 THEN 48 + n ELSE 87 + n

\* hex::FromHex: the value of a hex digit of either case, -1 for any other byte
HexVal(c) ==
  IF c >= 48 /\ c <= 57 THEN c - 48
  ELSE IF c >= 97 /\ c <= 102 THEN c - 87
  ELSE IF c >= 65 /\ c <= 70 THEN c - 55
  ELSE -1

RECURSIVE HexEncode(_)
HexEncode(s) ==
  IF s = <<>> THEN <<>>
  ELSE <<HexDigit(Head(s) \div 16), HexDigit(Head(s) % 16)>> \o HexEncode(Tail(s))

\* hex::decode succeeds: an even number of hex digits
HexOk(s) == Len(s) % 2 = 0 /\ \A i \in 1..Len(s) : HexVal(s[i]) >= 0

HexDecode(s) == [i \in 1..(Len(s) \div 2) |-> 16 * HexVal(s[2 * i - 1]) + HexVal(s[2 * i])]

\* String::from_utf8 succeeds: the bytes are well-formed UTF-8
RECURSIVE Utf8Ok(_)
Utf8Ok(b) ==
  IF b = <<>> THEN TRUE
  ELSE LET h == b[1]
           n == Len(b)
           cont(i) == i <= n /\ b[i] >= 128 /\ b[i] <= 191
       IN  IF h < 128 THEN Utf8Ok(Tail(b))
           ELSE IF h >= 194 /\ h <= 223
                THEN cont(2) /\ Utf8Ok(SubSeq(b, 3, n))
           ELSE IF h >= 224 /\ h <= 239
                THEN /\ cont(2) /\ cont(3)
                     /\ (h = 224 => b[2] >= 160)
                     /\ (h = 237 => b[2] <= 159)
                     /\ Utf8Ok(SubSeq(b, 4, n))
           ELSE IF h >= 240 /\ h <= 244
                THEN /\ cont(2) /\ cont(3) /\ cont(4)
                     /\ (h = 240 => b[2] >= 144)
                     /\ (h = 244 => b[2] <= 143)
                     /\ Utf8Ok(SubSeq(b, 5, n))
           ELSE FALSE

\* SymmetricEncryption::encrypt: always Ok
ServiceEncrypt(plaintext) == [ok |-> TRUE, s |-> HexEncode(plaintext)]

Failed == [ok |-> FALSE, s |-> <<>>]

\* String::from_utf8(bytes).expect(..)
FromUtf8(bytes) == IF Utf8Ok(bytes) THEN [ok |-> TRUE, s |-> bytes] ELSE Failed

\* SymmetricEncryption::decrypt: Ok, or a failure (either expect panics)
ServiceDecrypt(ciphertext) ==
  IF HexOk(ciphertext) THEN FromUtf8(HexDecode(ciphertext)) ELSE Failed

ServiceCall(call, value) ==
  IF call = "encrypt" THEN ServiceEncrypt(value) ELSE ServiceDecrypt(value)

\* digest: the keyed hash of the data, abstracted to a one-to-one, never
\* empty tagging of it ('h' followed by the data's hex form)
Digest(data) == <<104>> \o HexEncode(data)

(* --------------------------- the derive macro -------------------------- *)

\* HashMap::insert: the entry of an equal key is replaced
HashInsert(map, key, attributes) ==
  {e \in map : e.key # key} \cup {[key |-> key, attributes |-> attributes]}

\* faulty variant: the map is keyed by the field's type alone
FieldKeyByType(field) == [name |-> <<>>, ty |-> field.ty]

\* the field once deluxe::extract_attributes has taken its flags out
FieldKey(field) == [name |-> field.name, ty |-> field.ty]

RECURSIVE extract_encryptable_field_attributes(_)
extract_encryptable_field_attributes(fields) ==
  IF fields = <<>> THEN {}
  ELSE LET n == Len(fields)
           field == fields[n]
       IN  HashInsert(extract_encryptable_field_attributes(SubSeq(fields, 1, n - 1)),
                      FieldKey(field),
                      [encrypt |-> field.encrypt, decrypt |-> field.decrypt])

is_option(ty) == IF ty.path THEN Head(ty.segments) = "Option" ELSE FALSE

is_vector(ty) == IF ty.path THEN Head(ty.segments) = "Vec" ELSE FALSE

\* the field initializer a quote! template stands for
Initializer(ident, kind, call, parent) ==
  [ident |-> ident, kind |-> kind, call |-> call, parent |-> parent]

ServiceField(field, call) ==
  IF is_option(field.ty) THEN Initializer(field.name, "option", call, field.name)
  ELSE IF is_vector(field.ty) THEN Initializer(field.name, "vector", call, field.name)
  ELSE Initializer(field.name, "scalar", call, field.name)

encrypt_field(field) == ServiceField(field, "encrypt")

\* faulty variant: the decrypt templates call the service's encrypt
decrypt_field_encrypting(field) == ServiceField(field, "encrypt")

decrypt_field(field) == ServiceField(field, "decrypt")

\* the closure of encrypt_fields
EncryptInitializer(entry, digest) ==
  LET field_name == entry.key.name
  IN  IF entry.attributes.encrypt THEN encrypt_field(entry.key)
      ELSE IF EndsWith(field_name, LitDigest) /\ digest
           THEN Initializer(field_name, "digest", "none",
                            Replace(field_name, LitUnderscoreDigest, <<>>))
      ELSE Initializer(field_name, "copy", "none", field_name)

\* the closure of decrypt_fields
DecryptInitializer(entry) ==
  IF entry.attributes.decrypt THEN decrypt_field(entry.key)
  ELSE Initializer(entry.key.name, "copy", "none", entry.key.name)

\* the orders HashMap::iter may visit the entries in
IterOrders(map) ==
  {o \in [1..Cardinality(map) -> map] : \A i, j \in DOMAIN o : i # j => o[i] # o[j]}

(* --------------------- compiling the generated impl ------------------- *)

HasField(fields, name) == \E i \in 1..Len(fields) : fields[i].name = name

Idx(fields, name) == CHOOSE i \in 1..Len(fields) : fields[i].name = name

ActualOf(fields, name) == Actual(fields[Idx(fields, name)].ty)

\* the initializer type-checks against the declared fields
InitializerCompiles(fields, e) ==
  /\ HasField(fields, e.ident)
  /\ CASE e.kind = "copy" -> ActualOf(fields, e.ident) # "RefStr"
       [] e.kind = "scalar" -> ActualOf(fields, e.ident) = "String"
       [] e.kind = "option" -> ActualOf(fields, e.ident) = "Option"
       [] e.kind = "vector" -> ActualOf(fields, e.ident) = "Vec"
       [] e.kind = "digest" ->
            /\ ActualOf(fields, e.ident) = "String"
            /\ HasField(fields, e.parent)
            /\ ActualOf(fields, e.parent) = "String"

\* Self { .. } names every field exactly once and every initializer type-checks
Compiles(fields, plan) ==
  /\ \A i \in 1..Len(fields) :
       Cardinality({k \in 1..Len(plan) : plan[k].ident = fields[i].name}) = 1
  /\ \A k \in 1..Len(plan) : InitializerCompiles(fields, plan[k])

(* --------------------- running the generated impl --------------------- *)

\* a service call as it was made: the operation, the field, the argument
\* and whether the service answered Ok
Call(op, ident, arg, ok) == [op |-> op, field |-> ident, arg |-> arg, ok |-> ok]

\* faulty variant: unwrap_or_default(), a failure becomes the empty string
UnwrapOrDefault(e, value, r) ==
  [st |-> "ok", s |-> r.s, calls |-> <<Call(e.call, e.ident, value, r.ok)>>]

\* .unwrap() of the service's answer r: the value, or a panic
Unwrap(e, value, r) ==
  [st |-> IF r.ok THEN "ok" ELSE "panic", s |-> r.s,
   calls |-> <<Call(e.call, e.ident, value, r.ok)>>]

\* #service.<call>(value).unwrap()
Unwrapped(e, value) == Unwrap(e, value, ServiceCall(e.call, value))

\* faulty variant: elements that come out empty are left out
CollectedNonEmpty(acc, u) ==
  [st |-> u.st,
   items |-> IF u.st = "ok" /\ u.s # <<>> THEN Append(acc.items, u.s) ELSE acc.items,
   calls |-> acc.calls \o u.calls]

\* collect(): the elements so far and the next one, u
Collected(acc, u) ==
  [st |-> u.st,
   items |-> IF u.st = "ok" THEN Append(acc.items, u.s) ELSE acc.items,
   calls |-> acc.calls \o u.calls]

\* iter().map(|value| #service.<call>(value).unwrap()).collect(): element by
\* element, up to the first panic
RECURSIVE MapUnwrapped(_, _, _)
MapUnwrapped(e, items, acc) ==
  IF items = <<>> \/ acc.st = "panic" THEN acc
  ELSE MapUnwrapped(e, Tail(items), Collected(acc, Unwrapped(e, Head(items))))

Evaluated(val) == [st |-> "ok", val |-> val, calls |-> <<>>]

SomeOf(u) == [st |-> u.st, val |-> Some(u.s), calls |-> u.calls]

StrOf(u) == [st |-> u.st, val |-> Str(u.s), calls |-> u.calls]

VecOf(m) == [st |-> m.st, val |-> Vec(m.items), calls |-> m.calls]

\* faulty variant: a present but empty value becomes None
EvalOptionDroppingEmpty(e, own) ==
  IF own.tag = "Some" /\ own.s # <<>> THEN SomeOf(Unwrapped(e, own.s)) ELSE Evaluated(None)

\* the Option template of encrypt_field / decrypt_field
EvalOption(e, own) ==
  IF own.tag = "Some"
  THEN IF own.s = <<>> THEN Evaluated(Some(own.s)) ELSE SomeOf(Unwrapped(e, own.s))
  ELSE Evaluated(None)

\* the Vec template of encrypt_field / decrypt_field
EvalVector(e, own) ==
  IF own.items = <<>> THEN Evaluated(own)
  ELSE VecOf(MapUnwrapped(e, own.items, [st |-> "ok", items |-> <<>>, calls |-> <<>>]))

\* the scalar template of encrypt_field / decrypt_field
EvalScalar(e, own) ==
  IF own.s = <<>> THEN Evaluated(own) ELSE StrOf(Unwrapped(e, own.s))

\* faulty variant: the digest is taken whether or not the base value is empty
EvalDigestUnchecked(own, parent) == Evaluated(Str(Digest(parent.s)))

\* the digest template
EvalDigest(own, parent) ==
  IF parent.s = <<>> THEN Evaluated(own) ELSE Evaluated(Str(Digest(parent.s)))

\* one field initializer of Self { .. }, evaluated on self
EvalInitializer(e, fields, self) ==
  CASE e.kind = "copy" -> Evaluated(self[Idx(fields, e.ident)])
    [] e.kind = "scalar" -> EvalScalar(e, self[Idx(fields, e.ident)])
    [] e.kind = "option" -> EvalOption(e, self[Idx(fields, e.ident)])
    [] e.kind = "vector" -> EvalVector(e, self[Idx(fields, e.ident)])
    [] e.kind = "digest" ->
         EvalDigest(self[Idx(fields, e.ident)], self[Idx(fields, e.parent)])

\* the values initialized so far and the next initializer's outcome, r
Initialized(acc, r) ==
  [st |-> r.st,
   out |-> IF r.st = "ok" THEN Append(acc.out, r.val) ELSE acc.out,
   calls |-> acc.calls \o r.calls]

\* the initializers of Self { .. } in the order they are written, up to the
\* first panic; out holds the values in that order
RECURSIVE EvalInitializers(_, _, _, _, _)
EvalInitializers(plan, k, fields, self, acc) ==
  IF k > Len(plan) \/ acc.st = "panic" THEN acc
  ELSE EvalInitializers(plan, k + 1, fields, self,
                        Initialized(acc, EvalInitializer(plan[k], fields, self)))

\* the position of a field's initializer in Self { .. }
At(plan, name) == CHOOSE k \in 1..Len(plan) : plan[k].ident = name

\* what the operation returns: the new instance (its values in declaration
\* order) or a panic, and the service calls made
Returned(plan, fields, r) ==
  [st |-> r.st,
   rec |-> IF r.st = "ok"
           THEN [i \in 1..Len(fields) |-> r.out[At(plan, fields[i].name)]]
           ELSE <<>>,
   calls |-> r.calls]

\* fn encrypt(&self) -> Self / fn decrypt(&self) -> Self
RunImpl(plan, fields, self) ==
  Returned(plan, fields,
           EvalInitializers(plan, 1, fields, self,
                            [st |-> "ok", out |-> <<>>, calls |-> <<>>]))

\* the instances of the declared record
RECURSIVE Instances(_)
Instances(fields) ==
  IF fields = <<>> THEN {<<>>}
  ELSE {<<v>> \o rest : v \in Values(Head(fields).ty), rest \in Instances(Tail(fields))}

(* ------------------------------ the system ----------------------------- *)

NoResult == [st |-> "none", rec |-> <<>>, of |-> "none"]

\* a declaration, before the macro has run
DeclaredAs(decls) ==
  /\ ast \in decls
  /\ pc = "declared"
  /\ encrypt_fields = <<>>
  /\ decrypt_fields = <<>>
  /\ payload = <<>>
  /\ encrypted = NoResult
  /\ decrypted = NoResult
  /\ calls = <<>>

\* the test records, to be derived and run
Init == DeclaredAs(TestDeclarations)

\* any declaration of up to MaxFields fields of the pool, to be derived
InitGen == DeclaredAs(Declarations)

\* the caller receives what the operation, run on the instance named by of,
\* returned; the service has seen its calls
Returns(r, of, result, seen) ==
  /\ result = [st |-> r.st, rec |-> r.rec, of |-> of]
  /\ seen = calls \o r.calls

\* encryptable_derive_macro2, and the compilation of the impl it returns
Derive ==
  /\ pc = "declared"
  /\ \E order \in IterOrders(extract_encryptable_field_attributes(ast.fields)) :
       LET enc == [k \in DOMAIN order |-> EncryptInitializer(order[k], ast.digest)]
           dec == [k \in DOMAIN order |-> DecryptInitializer(order[k])]
       IN  /\ encrypt_fields' = enc
           /\ decrypt_fields' = dec
           /\ pc' = IF Compiles(ast.fields, enc) /\ Compiles(ast.fields, dec)
                    THEN "derived" ELSE "rejected"
  /\ UNCHANGED <<ast, payload, encrypted, decrypted, calls>>

\* let payload = TestData { .. }
Construct ==
  /\ pc = "derived"
  /\ \E p \in Instances(ast.fields) : payload' = p
  /\ pc' = "built"
  /\ UNCHANGED <<ast, encrypt_fields, decrypt_fields, encrypted, decrypted, calls>>

\* let encrypted = payload.encrypt()
Encrypt ==
  /\ pc = "built"
  /\ encrypted.st = "none"
  /\ decrypted.st = "none"
  /\ Returns(RunImpl(encrypt_fields, ast.fields, payload), "payload", encrypted', calls')
  /\ UNCHANGED <<ast, pc, encrypt_fields, decrypt_fields, payload, decrypted>>

\* let decrypted = encrypted.decrypt(), or payload.decrypt()
Decrypt ==
  /\ pc = "built"
  /\ decrypted.st = "none"
  /\ \/ /\ encrypted.st = "ok"
        /\ Returns(RunImpl(decrypt_fields, ast.fields, encrypted.rec), "encrypted",
                   decrypted', calls')
     \/ /\ encrypted.st = "none"
        /\ Returns(RunImpl(decrypt_fields, ast.fields, payload), "payload",
                   decrypted', calls')
  /\ UNCHANGED <<ast, pc, encrypt_fields, decrypt_fields, payload, encrypted>>

Next == Derive \/ Construct \/ Encrypt \/ Decrypt

Spec == Init /\ [][Next]_vars

\* the macro alone
NextGen == Derive

SpecGen == InitGen /\ [][NextGen]_vars

(* ------------------------- terms of the claims ------------------------- *)

Generated == pc # "declared"

FieldNos == 1..Len(ast.fields)

BothFlags(i) == ast.fields[i].encrypt /\ ast.fields[i].decrypt

\* the initializer generated for field i in each operation
EncodeOf(i) == encrypt_fields[At(encrypt_fields, ast.fields[i].name)]
DecodeOf(i) == decrypt_fields[At(decrypt_fields, ast.fields[i].name)]

\* the shape the outer type constructor of a declared type stands for
OuterShape(ty) ==
  IF Actual(ty) = "Option" THEN "option"
  ELSE IF Actual(ty) = "Vec" THEN "vector"
  ELSE "scalar"

\* the digest relation of the specification: "<base>_digest" beside "<base>"
\* with a digest function configured
PairedDigest(name) ==
  /\ ast.digest
  /\ \E j \in FieldNos : name = ast.fields[j].name \o LitUnderscoreDigest

\* the tags of the values of a declared type
TagsOf(ty) ==
  IF Actual(ty) = "Option" THEN {"None", "Some"}
  ELSE IF Actual(ty) = "Vec" THEN {"Vec"}
  ELSE {"Str"}

\* the instance decrypt was called on
DecryptSource == IF decrypted.of = "encrypted" THEN encrypted.rec ELSE payload

RoundTripped == encrypted.st = "ok" /\ decrypted.st = "ok" /\ decrypted.of = "encrypted"

CallsOf(op) == {k \in DOMAIN calls : calls[k].op = op}

CallsOn(i) == {k \in DOMAIN calls : calls[k].field = ast.fields[i].name}

EmptyValue(v) == v.s = <<>> /\ v.items = <<>> /\ v.tag # "None"

(* ------------------------------ the claims ----------------------------- *)

\* C1 (as claimed): the service is never called with an empty string, be it a
\* scalar, the inner value of an Option or an element of a Vec, and an empty
\* value of a flagged field comes out as it went in.
C1_ServiceNeverSeesEmpty ==
  /\ \A k \in DOMAIN calls : calls[k].arg # <<>>
  /\ \A i \in FieldNos :
       /\ (encrypted.st = "ok" /\ ast.fields[i].encrypt /\ EmptyValue(payload[i]))
            => encrypted.rec[i] = payload[i]
       /\ (decrypted.st = "ok" /\ ast.fields[i].decrypt /\ EmptyValue(DecryptSource[i]))
            => decrypted.rec[i] = DecryptSource[i]

C3_DigestOfOriginal ==
  \A i, j \in FieldNos :
    (/\ encrypted.st = "ok"
     /\ ast.digest
     /\ ast.fields[i].name = <<"n">>
     /\ ast.fields[j].name = <<"n">> \o LitUnderscoreDigest
     /\ ~ast.fields[j].encrypt)
    => encrypted.rec[j] =
         IF payload[i].s # <<>> THEN Str(Digest(payload[i].s)) ELSE payload[j]

\* n is encrypted, and initialized before n_digest
C3_Witness ==
  /\ encrypted.st = "ok"
  /\ ast.digest
  /\ \E i, j \in FieldNos :
       /\ ast.fields[i].name = <<"n">>
       /\ ast.fields[j].name = <<"n">> \o LitUnderscoreDigest
       /\ ast.fields[i].encrypt
       /\ ~ast.fields[j].encrypt
       /\ encrypt_fields[1].ident = <<"n">>
       /\ payload[i].s # <<>>
       /\ encrypted.rec[i] # payload[i]
       /\ encrypted.rec[j] = Str(Digest(payload[i].s))

\* C4 (as claimed): the digest initializer is generated only for a field
\* "<base>_digest" that has a sibling "<base>", with a digest function
\* configured; any other field not flagged encrypt is copied through and its
\* initializer reads no other field.
C4_DigestOnlyWhenPaired ==
  Generated =>
    \A k \in DOMAIN encrypt_fields :
      /\ encrypt_fields[k].kind = "digest" => PairedDigest(encrypt_fields[k].ident)
      /\ \A i \in FieldNos :
           (/\ ast.fields[i].name = encrypt_fields[k].ident
            /\ ~ast.fields[i].encrypt
            /\ ~PairedDigest(ast.fields[i].name))
           => /\ encrypt_fields[k].kind = "copy"
              /\ encrypt_fields[k].parent = encrypt_fields[k].ident

\* C5 (as claimed): a field whose encrypt initializer is the digest rule is
\* copied through by decrypt, whatever its flags.
C5_DigestFieldDecodeCopies ==
  Generated =>
    \A i \in FieldNos :
      (EncodeOf(i).kind = "digest" /\ PairedDigest(ast.fields[i].name))
      => DecodeOf(i).kind = "copy"

\* C6: a Vec field flagged encrypt and decrypt keeps its length through
\* encrypt and through decrypt; element k of the encrypted field is the
\* service's encryption of element k; an empty Vec is returned as it is and
\* no service call is made for it; after encrypt followed by decrypt the
\* field holds the elements it held, in their order.
C6_SequenceRoundTrip ==
  \A i \in FieldNos :
    (BothFlags(i) /\ Actual(ast.fields[i].ty) = "Vec")
    => /\ encrypted.st = "ok" =>
            /\ Len(encrypted.rec[i].items) = Len(payload[i].items)
            /\ \A k \in DOMAIN payload[i].items :
                 encrypted.rec[i].items[k] = ServiceEncrypt(payload[i].items[k]).s
       /\ decrypted.st = "ok" =>
            Len(decrypted.rec[i].items) = Len(DecryptSource[i].items)
       /\ (pc = "built" /\ payload[i].items = <<>>) =>
            /\ CallsOn(i) = {}
            /\ encrypted.st = "ok" => encrypted.rec[i] = payload[i]
            /\ decrypted.st = "ok" => decrypted.rec[i] = payload[i]
       /\ RoundTripped => decrypted.rec[i] = payload[i]

\* two different elements, one of them the empty string
C6_Witness ==
  /\ RoundTripped
  /\ \E i \in FieldNos :
       /\ BothFlags(i)
       /\ Actual(ast.fields[i].ty) = "Vec"
       /\ Len(payload[i].items) = 2
       /\ payload[i].items[1] # <<>>
       /\ payload[i].items[2] = <<>>
       /\ encrypted.rec[i] # payload[i]
       /\ decrypted.rec[i] = payload[i]

C8_OneInitializerPerField ==
  Generated =>
    /\ Len(encrypt_fields) = Len(ast.fields)
    /\ Len(decrypt_fields) = Len(ast.fields)
    /\ \A i \in FieldNos :
         /\ Cardinality({k \in DOMAIN encrypt_fields :
                           encrypt_fields[k].ident = ast.fields[i].name}) = 1
         /\ Cardinality({k \in DOMAIN decrypt_fields :
                           decrypt_fields[k].ident = ast.fields[i].name}) = 1

\* two fields, initialized in the reverse of their declaration order
C8_Witness ==
  /\ Generated
  /\ Len(ast.fields) = 2
  /\ encrypt_fields[1].ident = ast.fields[2].name
  /\ decrypt_fields[1].ident = ast.fields[2].name
  /\ ast.fields[1].encrypt
  /\ ~ast.fields[2].decrypt

\* what an operation returned, against the service calls it made
AbortsOnFirstFailure(result, op) ==
  /\ result.st = "panic" <=> \E k \in CallsOf(op) : ~calls[k].ok
  /\ result.st = "panic" =>
       /\ result.rec = <<>>
       /\ \A k \in CallsOf(op) : ~calls[k].ok => \A m \in CallsOf(op) : m <= k
  /\ result.st = "ok" =>
       /\ Len(result.rec) = Len(ast.fields)
       /\ \A i \in FieldNos : result.rec[i].tag \in TagsOf(ast.fields[i].ty)

C9_Returned ==
  /\ encrypted.st # "none" => AbortsOnFirstFailure(encrypted, "encrypt")
  /\ decrypted.st # "none" => AbortsOnFirstFailure(decrypted, "decrypt")

\* the instance an operation is called on is the same after the call
C9_SourceKept ==
  /\ encrypted' # encrypted => payload' = payload
  /\ decrypted' # decrypted => (payload' = payload /\ encrypted' = encrypted)

\* C9: an operation panics exactly when one of its service calls fails, at
\* the first such call, and then returns no record; otherwise it returns a
\* record with a value of the declared shape in every field; and the instance
\* it was called on is left as it was.
C9_AbortOrCompleteRecord == []C9_Returned /\ [][C9_SourceKept]_vars

\* decrypt of a Vec panics at its second element, after a call that succeeded
C9_Witness ==
  /\ decrypted.st = "panic"
  /\ Cardinality(CallsOf("decrypt")) = 2
  /\ \E k \in CallsOf("decrypt") : calls[k].ok

\* C10 (as claimed): a flagged field gets the Option template exactly when
\* the outer constructor of its declared type is Option, the Vec template
\* exactly when it is Vec, and the scalar template otherwise, however the
\* path to the constructor is written.
C10_ShapeByOuterConstructor ==
  Generated =>
    \A i \in FieldNos :
      /\ ast.fields[i].encrypt => EncodeOf(i).kind = OuterShape(ast.fields[i].ty)
      /\ ast.fields[i].decrypt => DecodeOf(i).kind = OuterShape(ast.fields[i].ty)

====
